---- MODULE Spec2Model ----
(***************************************************************************)
(* A model of jira_agile_metrics/querymanager.py: the QueryManager         *)
(* constructor (attribute -> field resolution), resolve_field_value /      *)
(* resolve_attribute_value, and the iter_changes generator.                *)
(*                                                                         *)
(* Python values are records [kind, v, hasName, name]; field names are     *)
(* sequences of one-character strings so that str.lower() can be modelled  *)
(* character by character; timestamps are <<wall hour, utc offset>>.       *)
(***************************************************************************)
EXTENDS Integers, Sequences, FiniteSets, TLC

VARIABLES
    jira_fields,   \* self.jira_fields: the field directory, a sequence of [id, name]
    settings,      \* self.settings: [attributes, known_values]
    qm,            \* the QueryManager under construction / constructed
    issues,        \* the issues held by the caller, by key
    gens,          \* the iter_changes generators held by consumers
    ret            \* the outcome of the last resolve_* call

vars == <<jira_fields, settings, qm, issues, gens, ret>>

(***************************************************************************)
(* Bounds of the model                                                     *)
(***************************************************************************)
MaxDir == 2
MaxAttrs == 2
MaxList == 2
MaxKnown == 2
MaxFields == 2
MaxHistories == 2
MaxItems == 2

(***************************************************************************)
(* Generic helpers                                                         *)
(***************************************************************************)
SeqsUpTo(S, n) == UNION {[1..k -> S] : k \in 0..n}

MinOf(S) == CHOOSE x \in S : \A y \in S : x <= y

EmptyMap == [x \in {} |-> x]

\* dict[k] = v
Put(m, k, v) == [x \in (DOMAIN m) \cup {k} |-> IF x = k THEN v ELSE m[x]]

Return(v) == [exc |-> "", val |-> v]

(***************************************************************************)
(* Python values                                                           *)
(***************************************************************************)
None == [kind |-> "None", v |-> "None", hasName |-> FALSE, name |-> ""]

Str(s) == [kind |-> "str", v |-> s, hasName |-> FALSE, name |-> ""]

PyInt(s) == [kind |-> "int", v |-> s, hasName |-> FALSE, name |-> ""]

\* an object whose str() is `text`; it may expose a `name` attribute
Obj(text) == [kind |-> "obj", v |-> text, hasName |-> FALSE, name |-> ""]

NamedObj(text, n) == [kind |-> "obj", v |-> text, hasName |-> TRUE, name |-> n]

\* an object whose __str__ makes str() raise TypeError
NoStrObj == [kind |-> "nostr", v |-> "", hasName |-> FALSE, name |-> ""]

Raise(e) == [exc |-> e, val |-> None]

\* isinstance(value, (int, float, bool, str, bytes))
IsPrimitive(value) == value.kind \in {"int", "float", "bool", "str", "bytes"}

\* str(value)
PyStr(value) ==
    IF value.kind = "nostr" THEN Raise("TypeError") ELSE Return(Str(value.v))

\* getattr(v, 'name', v)
GetName(v) == IF v.hasName THEN Str(v.name) ELSE v

(***************************************************************************)
(* Field names and str.lower()                                             *)
(***************************************************************************)
LowerChar(c) ==
    CASE c = "S" -> "s"
      [] c = "T" -> "t"
      [] OTHER -> c

Lower(name) == [i \in 1..Len(name) |-> LowerChar(name[i])]

(***************************************************************************)
(* Timestamps: dateutil.parser.parse and datetime.astimezone(tzutc())      *)
(***************************************************************************)
Parse(text) == [wall |-> text[1], utcoffset |-> text[2]]

AsTimezoneUTC(dt) == [wall |-> dt.wall - dt.utcoffset, utcoffset |-> 0]

(***************************************************************************)
(* QueryManager.field_name_to_id                                           *)
(***************************************************************************)
\* variant: the comparison without .lower()
field_name_to_id_exact(name) ==
    LET hits == {i \in 1..Len(jira_fields) : jira_fields[i].name = name}
    IN  IF hits = {} THEN [exc |-> "ConfigError", val |-> ""]
        ELSE [exc |-> "", val |-> jira_fields[MinOf(hits)].id]

\* variant: next(..., None) in place of the raise
field_name_to_id_default(name) ==
    LET hits == {i \in 1..Len(jira_fields) :
                    Lower(jira_fields[i].name) = Lower(name)}
    IN  IF hits = {} THEN [exc |-> "", val |-> "None"]
        ELSE [exc |-> "", val |-> jira_fields[MinOf(hits)].id]

\* next(f['id'] for f in self.jira_fields if f['name'].lower() == name.lower())
field_name_to_id(name) ==
    LET hits == {i \in 1..Len(jira_fields) :
                    Lower(jira_fields[i].name) = Lower(name)}
    IN  IF hits = {} THEN [exc |-> "ConfigError", val |-> ""]
        ELSE [exc |-> "", val |-> jira_fields[MinOf(hits)].id]

(***************************************************************************)
(* QueryManager.__init__                                                   *)
(***************************************************************************)
RECURSIVE ResolveAttributes(_, _, _, _)
ResolveAttributes(attrs, k, a2f, f2a) ==
    IF k > Len(attrs)
    THEN [exc |-> "", attributes_to_fields |-> a2f, fields_to_attributes |-> f2a]
    ELSE LET r == field_name_to_id(attrs[k].field)
         IN  IF r.exc # ""
             THEN [exc |-> r.exc, attributes_to_fields |-> EmptyMap,
                   fields_to_attributes |-> EmptyMap]
             ELSE ResolveAttributes(attrs, k + 1,
                                    Put(a2f, attrs[k].name, r.val),
                                    Put(f2a, r.val, attrs[k].name))

NotConstructed ==
    [state |-> "new", attributes_to_fields |-> EmptyMap,
     fields_to_attributes |-> EmptyMap]

Construct ==
    /\ qm.state = "new"
    /\ LET r == ResolveAttributes(settings.attributes, 1, EmptyMap, EmptyMap)
       IN  qm' = [state |-> IF r.exc = "" THEN "ok" ELSE r.exc,
                  attributes_to_fields |-> r.attributes_to_fields,
                  fields_to_attributes |-> r.fields_to_attributes]
    /\ UNCHANGED <<jira_fields, settings, issues, gens, ret>>

(***************************************************************************)
(* QueryManager.resolve_field_value                                        *)
(*                                                                         *)
(* A raw field value is [wrapped, isList, scalar, elems]: `wrapped` says   *)
(* the field is an object exposing `.value`; the payload is either the     *)
(* scalar or the list `elems`.                                             *)
(***************************************************************************)
RawScalar(w, x) == [wrapped |-> w, isList |-> FALSE, scalar |-> x, elems |-> <<>>]

RawList(w, xs) == [wrapped |-> w, isList |-> TRUE, scalar |-> None, elems |-> xs]

\* field_value is None
IsNone(field_value) ==
    /\ ~field_value.wrapped
    /\ ~field_value.isList
    /\ field_value.scalar = None

\* variant: values = value, no display names
candidate_values_raw(value) == value

\* values = [getattr(v, 'name', v) for v in value]
candidate_values(value) == [j \in 1..Len(value) |-> GetName(value[j])]

\* attribute_name not in self.settings['known_values'], with
\* attribute_name = self.fields_to_attributes.get(field_id, None)
NoKnownValues(field_id) ==
    \/ field_id \notin DOMAIN qm.fields_to_attributes
    \/ qm.fields_to_attributes[field_id] \notin DOMAIN settings.known_values

\* next(filter(lambda v: v in values, known)), None on StopIteration
FirstKnown(known, values) ==
    LET hits == {n \in 1..Len(known) : \E j \in 1..Len(values) : values[j] = known[n]}
    IN  IF hits = {} THEN None ELSE known[MinOf(hits)]

pick_value(values, field_id) ==
    IF NoKnownValues(field_id)
    THEN values[1]
    ELSE FirstKnown(settings.known_values[qm.fields_to_attributes[field_id]], values)

\* if not isinstance(value, (int, float, bool, str, bytes)): value = str(value)
coerce(value) ==
    IF IsPrimitive(value) THEN value
    ELSE LET s == PyStr(value)
         IN  IF s.exc = "TypeError" THEN value ELSE s.val

resolve_field_value(issue, field_id) ==
    IF field_id \notin DOMAIN issue.fields
    THEN Raise("AttributeError")
    ELSE LET field_value == issue.fields[field_id]
         IN  IF IsNone(field_value) THEN Return(None)
             ELSE IF field_value.isList
             THEN IF Len(field_value.elems) = 0
                  THEN Return(coerce(None))
                  ELSE Return(coerce(pick_value(candidate_values(field_value.elems),
                                                field_id)))
             ELSE Return(coerce(field_value.scalar))

resolve_attribute_value(issue, attribute_name) ==
    IF attribute_name \notin DOMAIN qm.attributes_to_fields
    THEN Raise("KeyError")
    ELSE resolve_field_value(issue, qm.attributes_to_fields[attribute_name])

NoCall == [op |-> "", key |-> "", arg |-> "", exc |-> "", val |-> None]

ResolveFieldValue(key, field_id) ==
    /\ qm.state = "ok"
    /\ LET r == resolve_field_value(issues[key], field_id)
       IN  ret' = [op |-> "resolve_field_value", key |-> key, arg |-> field_id,
                   exc |-> r.exc, val |-> r.val]
    /\ UNCHANGED <<jira_fields, settings, qm, issues, gens>>

ResolveAttributeValue(key, attribute_name) ==
    /\ qm.state = "ok"
    /\ LET r == resolve_attribute_value(issues[key], attribute_name)
       IN  ret' = [op |-> "resolve_attribute_value", key |-> key,
                   arg |-> attribute_name, exc |-> r.exc, val |-> r.val]
    /\ UNCHANGED <<jira_fields, settings, qm, issues, gens>>

(***************************************************************************)
(* IssueSnapshot.__init__                                                  *)
(***************************************************************************)
\* variant: self.date = date, without astimezone
IssueSnapshot_keep_tz(change, key, date, from_string, to_string) ==
    [change |-> change, key |-> key, date |-> date,
     from_string |-> from_string, to_string |-> to_string]

IssueSnapshot(change, key, date, from_string, to_string) ==
    [change |-> change, key |-> key, date |-> AsTimezoneUTC(date),
     from_string |-> from_string, to_string |-> to_string]

(***************************************************************************)
(* QueryManager.iter_changes                                               *)
(*                                                                         *)
(* A generator is [pc, key, fields, i, h, k, out, exc]: i fields have been *)
(* handled by the first loop; (h, k) is the next changelog item the second *)
(* loop looks at; out is what the consumer has received so far.            *)
(***************************************************************************)
\* itertools.chain.from_iterable([c.items for c in issue.changelog.histories])
RECURSIVE chain_items(_)
chain_items(histories) ==
    IF histories = <<>> THEN <<>>
    ELSE Head(histories).items \o chain_items(Tail(histories))

\* variant: the changelog is not consulted
initial_value_current(issue, field, resolved) == resolved

\* next(filter(lambda h: h.field == field, ...)).fromString, else the
\* value resolved before
initial_value(issue, field, resolved) ==
    LET items == chain_items(issue.histories)
        hits == {n \in 1..Len(items) : items[n].field = field}
    IN  IF hits = {} THEN resolved ELSE items[MinOf(hits)].fromString

\* variant: every item is yielded
tracked_any(item_field, fields) == TRUE

\* item.field in fields
tracked(item_field, fields) == \E j \in 1..Len(fields) : fields[j] = item_field

\* the position of the next item the second loop yields, from (h, k) on
RECURSIVE NextItem(_, _, _, _)
NextItem(histories, fields, h, k) ==
    IF h > Len(histories) THEN [found |-> FALSE, h |-> h, k |-> k]
    ELSE IF k > Len(histories[h].items) THEN NextItem(histories, fields, h + 1, 1)
    ELSE IF tracked(histories[h].items[k].field, fields)
         THEN [found |-> TRUE, h |-> h, k |-> k]
         ELSE NextItem(histories, fields, h, k + 1)

Idle ==
    [pc |-> "idle", key |-> "", fields |-> <<>>, i |-> 0, h |-> 1, k |-> 1,
     out |-> <<>>, exc |-> ""]

\* one next() on the generator: run to the next yield, the end or a raise
GenStep(gen, issue) ==
    IF gen.i < Len(gen.fields)
    THEN LET field == gen.fields[gen.i + 1]
             id == field_name_to_id(field)
             cur == IF id.exc # "" THEN Raise(id.exc)
                    ELSE resolve_field_value(issue, id.val)
         IN  IF cur.exc # ""
             THEN [gen EXCEPT !.pc = "raised", !.exc = cur.exc]
             ELSE [gen EXCEPT
                     !.i = gen.i + 1,
                     !.out = Append(gen.out,
                                IssueSnapshot(field, issue.key, Parse(issue.created),
                                              None,
                                              initial_value(issue, field, cur.val)))]
    ELSE LET n == NextItem(issue.histories, gen.fields, gen.h, gen.k)
         IN  IF ~n.found
             THEN [gen EXCEPT !.pc = "done", !.h = n.h, !.k = n.k]
             ELSE LET change == issue.histories[n.h]
                      item == change.items[n.k]
                  IN  [gen EXCEPT
                         !.h = n.h, !.k = n.k + 1,
                         !.out = Append(gen.out,
                                    IssueSnapshot(item.field, issue.key,
                                                  Parse(change.created),
                                                  item.fromString, item.toString))]

\* gen = qm.iter_changes(issue, fields)
Call(g, key, fields) ==
    /\ qm.state = "ok"
    /\ gens[g].pc = "idle"
    /\ gens' = [gens EXCEPT ![g] = [Idle EXCEPT !.pc = "suspended", !.key = key,
                                                !.fields = fields]]
    /\ UNCHANGED <<jira_fields, settings, qm, issues, ret>>

\* variant: a next() that also drops the history it has just read from the issue
PullConsuming(g) ==
    /\ gens[g].pc = "suspended"
    /\ gens' = [gens EXCEPT ![g] = GenStep(gens[g], issues[gens[g].key])]
    /\ issues' = [issues EXCEPT ![gens[g].key].histories =
                     IF gens[g].i >= Len(gens[g].fields) /\ @ # <<>>
                     THEN Tail(@) ELSE @]
    /\ UNCHANGED <<jira_fields, settings, qm, ret>>

\* next(gen)
Pull(g) ==
    /\ gens[g].pc = "suspended"
    /\ gens' = [gens EXCEPT ![g] = GenStep(gens[g], issues[gens[g].key])]
    /\ UNCHANGED <<jira_fields, settings, qm, issues, ret>>

(***************************************************************************)
(* Inputs: field directories, configurations, issues                       *)
(***************************************************************************)
FieldIds == {"f1", "f2"}

DirectoryNames == {<<"S">>, <<"s">>, <<"T">>}

\* self.jira.fields()
Directories ==
    SeqsUpTo([id : FieldIds, name : DirectoryNames], MaxDir)

SampleDirectory ==
    << [id |-> "f1", name |-> <<"S">>], [id |-> "f2", name |-> <<"T">>] >>

AttributeNames == {"A1", "A2", "A3"}

ConfiguredFieldNames == DirectoryNames \cup {<<"S", "T">>}

\* settings['attributes']: a dict, so no attribute name occurs twice; the
\* sequence is the dict's iteration order
AttributeConfigs ==
    {a \in SeqsUpTo([name : AttributeNames, field : ConfiguredFieldNames], MaxAttrs) :
        \A m, n \in 1..Len(a) : a[m].name = a[n].name => m = n}

SampleAttributeConfigs ==
    { <<>>,
      << [name |-> "A1", field |-> <<"S">>] >>,
      << [name |-> "A1", field |-> <<"s">>], [name |-> "A2", field |-> <<"T">>] >>,
      << [name |-> "A1", field |-> <<"S">>], [name |-> "A2", field |-> <<"s">>] >> }

KnownValueEntries == {Str("x"), Str("y"), Str("z")}

\* settings['known_values']
KnownValueConfigs ==
    {EmptyMap} \cup
    {(a :> known) : a \in {"A1", "A2"}, known \in SeqsUpTo(KnownValueEntries, MaxKnown)}

ListElements == {Str("x"), Str("y"), NamedObj("<z>", "z"), Obj("<o>")}

ScalarValues ==
    {None, Str("x"), PyInt("30"), NamedObj("<Done>", "Done"), Obj("<o>"), NoStrObj}

\* what getattr(issue.fields, field_id) can hold
RawValues ==
    {RawScalar(w, x) : w \in BOOLEAN, x \in ScalarValues} \cup
    {RawList(w, xs) : w \in BOOLEAN, xs \in SeqsUpTo(ListElements, MaxList)}

DeltaItems ==
    {[field |-> f, fromString |-> t[1], toString |-> t[2]] :
        f \in {<<"S">>, <<"T">>},
        t \in {<<None, Str("x")>>, <<Str("x"), Str("y")>>}}

RECURSIVE SumSeq(_)
SumSeq(ns) == IF ns = <<>> THEN 0 ELSE Head(ns) + SumSeq(Tail(ns))

\* the timestamp text of the h-th history: the same instants written in UTC
\* or with a +2 offset
Stamp(zone, h) == IF zone = "utc" THEN <<10 + h, 0>> ELSE <<12 + h, 2>>

\* issue.changelog.histories: at most MaxHistories entries, each with at
\* least one delta item, holding at most MaxItems delta items in all
Changelogs(zone) ==
    {[h \in 1..Len(lens) |->
        [created |-> Stamp(zone, h),
         items |-> SubSeq(flat, SumSeq(SubSeq(lens, 1, h - 1)) + 1,
                                SumSeq(SubSeq(lens, 1, h)))]] :
        <<flat, lens>> \in
            {x \in SeqsUpTo(DeltaItems, MaxItems)
                   \X SeqsUpTo(1..MaxItems, MaxHistories) :
                SumSeq(x[2]) = Len(x[1])}}

CurrentFields ==
    { ("f1" :> RawScalar(FALSE, Str("Done"))) @@ ("f2" :> RawList(FALSE, <<Str("x"), Str("y")>>)),
      ("f1" :> RawList(FALSE, <<>>)) }

TrackedNames == {<<"S">>, <<"s">>, <<"T">>, <<"Z">>}

FieldLists == SeqsUpTo(TrackedNames, MaxFields)

ConcurrentFieldLists == SeqsUpTo({<<"S">>, <<"T">>, <<"Z">>}, MaxFields)

MakeIssue(key, created, fields, histories) ==
    [key |-> key, created |-> created, fields |-> fields, histories |-> histories]

SampleIssues ==
    ("ISSUE-1" :>
        MakeIssue("ISSUE-1", <<3, 2>>,
                  ("f1" :> RawScalar(FALSE, Str("Done"))) @@ ("f2" :> RawList(FALSE, <<Str("x")>>)),
                  << [created |-> <<11, 0>>,
                      items |-> << [field |-> <<"S">>, fromString |-> Str("To Do"),
                                    toString |-> Str("In Progress")],
                                   [field |-> <<"T">>, fromString |-> None,
                                    toString |-> Str("x")] >>],
                     [created |-> <<14, 2>>,
                      items |-> << [field |-> <<"S">>, fromString |-> Str("In Progress"),
                                    toString |-> Str("Done")] >>] >>))
    @@
    ("ISSUE-2" :>
        MakeIssue("ISSUE-2", <<5, 0>>,
                  ("f1" :> RawScalar(FALSE, Str("Open"))),
                  << [created |-> <<12, 0>>,
                      items |-> << [field |-> <<"S">>, fromString |-> Str("New"),
                                    toString |-> Str("Open")] >>] >>))

GenIds == {"g1", "g2"}

NoGenerators == [g \in GenIds |-> Idle]

(***************************************************************************)
(* Construction: any directory against any attribute configuration         *)
(***************************************************************************)
InitConstruct ==
    /\ jira_fields \in Directories
    /\ settings \in [attributes : AttributeConfigs, known_values : {EmptyMap}]
    /\ qm = NotConstructed
    /\ issues = SampleIssues
    /\ gens = NoGenerators
    /\ ret = NoCall

NextConstruct == Construct

SpecConstruct == InitConstruct /\ [][NextConstruct]_vars

(***************************************************************************)
(* Resolution: any raw value of field f1 under any known-values table      *)
(***************************************************************************)
InitResolve ==
    /\ jira_fields = SampleDirectory
    /\ settings \in [attributes : SampleAttributeConfigs,
                     known_values : KnownValueConfigs]
    /\ qm = NotConstructed
    /\ \E raw \in RawValues :
          issues = ("ISSUE-1" :> MakeIssue("ISSUE-1", <<3, 2>>, ("f1" :> raw), <<>>))
    /\ gens = NoGenerators
    /\ ret = NoCall

NextResolve ==
    \/ Construct
    \/ \E field_id \in FieldIds : ResolveFieldValue("ISSUE-1", field_id)
    \/ \E a \in {"A1", "A2"} : ResolveAttributeValue("ISSUE-1", a)

SpecResolve == InitResolve /\ [][NextResolve]_vars

(***************************************************************************)
(* Reconstruction: one consumer, any changelog and any tracked-field list  *)
(***************************************************************************)
IterSettings ==
    [attributes |-> << [name |-> "A1", field |-> <<"T">>] >>,
     known_values |-> ("A1" :> << Str("y"), Str("x") >>)]

InitIter ==
    /\ jira_fields = SampleDirectory
    /\ settings = IterSettings
    /\ qm = NotConstructed
    /\ \E zone \in {"utc", "offset"}, fields \in CurrentFields :
       \E histories \in Changelogs(zone) :
          issues = ("ISSUE-1" :> MakeIssue("ISSUE-1", Stamp(zone, 0), fields, histories))
    /\ gens = NoGenerators
    /\ ret = NoCall

NextIter ==
    \/ Construct
    \/ \E fields \in FieldLists : Call("g1", "ISSUE-1", fields)
    \/ Pull("g1")

Spec == InitIter /\ [][NextIter]_vars

(***************************************************************************)
(* Two consumers pulling from their generators in any interleaving         *)
(***************************************************************************)
InitConcurrent ==
    /\ jira_fields = SampleDirectory
    /\ settings = IterSettings
    /\ qm = NotConstructed
    /\ issues = SampleIssues
    /\ gens = NoGenerators
    /\ ret = NoCall

NextConcurrent ==
    \/ Construct
    \/ \E g \in GenIds, key \in DOMAIN SampleIssues, fields \in ConcurrentFieldLists :
          Call(g, key, fields)
    \/ \E g \in GenIds : Pull(g)

SpecConcurrent == InitConcurrent /\ [][NextConcurrent]_vars

(***************************************************************************)
(* Vocabulary of the properties                                            *)
(***************************************************************************)
Started == {g \in GenIds : gens[g].pc # "idle"}

IsTrackedField(f, fields) == f \in {fields[j] : j \in 1..Len(fields)}

\* the changelog's delta items, oldest history first, each with the
\* timestamp text of its history
RECURSIVE DatedItems(_)
DatedItems(histories) ==
    IF histories = <<>> THEN <<>>
    ELSE LET first == Head(histories)
         IN  [n \in 1..Len(first.items) |->
                 [item |-> first.items[n], created |-> first.created]]
             \o DatedItems(Tail(histories))

RECURSIVE OnlyTracked(_, _)
OnlyTracked(dated, fields) ==
    IF dated = <<>> THEN <<>>
    ELSE IF IsTrackedField(Head(dated).item.field, fields)
         THEN <<Head(dated)>> \o OnlyTracked(Tail(dated), fields)
         ELSE OnlyTracked(Tail(dated), fields)

\* the instant a timestamp text denotes, in hours
Instant(text) == text[1] - text[2]

SameNameIgnoringCase(a, b) ==
    /\ Len(a) = Len(b)
    /\ \A n \in 1..Len(a) :
          \/ a[n] = b[n]
          \/ {a[n], b[n]} \in {{"S", "s"}, {"T", "t"}}

HasDirectoryEntry(name) ==
    \E n \in 1..Len(jira_fields) : SameNameIgnoringCase(jira_fields[n].name, name)

\* C1: the sequence a generator has produced is, element by element, one
\* initial snapshot per entry of `fields` in the given order, followed by one
\* snapshot per delta item whose field is in `fields`, in history order and
\* item order; once the generator is exhausted nothing is missing.
C1_InitialThenHistorical ==
    \A g \in Started :
        LET gen == gens[g]
            N == Len(gen.fields)
            hist == OnlyTracked(DatedItems(issues[gen.key].histories), gen.fields)
        IN  /\ Len(gen.out) <= N + Len(hist)
            /\ gen.pc = "done" => Len(gen.out) = N + Len(hist)
            /\ \A n \in 1..Len(gen.out) :
                  IF n <= N
                  THEN gen.out[n].change = gen.fields[n]
                  ELSE /\ gen.out[n].change = hist[n - N].item.field
                       /\ gen.out[n].from_string = hist[n - N].item.fromString
                       /\ gen.out[n].to_string = hist[n - N].item.toString

\* an exhausted generator over two tracked fields of which only one occurs
\* in a changelog that also holds an untracked item
C1_Witness ==
    \E g \in Started :
        LET gen == gens[g]
            dated == DatedItems(issues[gen.key].histories)
        IN  /\ gen.pc = "done"
            /\ Len(gen.fields) = 2
            /\ Len(gen.out) = 3
            /\ Len(dated) = 2
            /\ Len(issues[gen.key].histories) = 2

\* C2: the to_value of the initial snapshot of a tracked field is the
\* fromString of the first delta item of that field (and so the from_value of
\* the first historical snapshot of that field), or, when the changelog has
\* no item of that field, the current value resolve_field_value returns.
C2_InitialValue ==
    \A g \in Started :
        LET gen == gens[g]
            issue == issues[gen.key]
            N == Len(gen.fields)
            dated == DatedItems(issue.histories)
        IN  \A n \in 1..Len(gen.out) : n <= N =>
                LET field == gen.fields[n]
                    hits == {m \in 1..Len(dated) : dated[m].item.field = field}
                    later == {m \in (N + 1)..Len(gen.out) : gen.out[m].change = field}
                IN  /\ hits # {} =>
                          gen.out[n].to_string = dated[MinOf(hits)].item.fromString
                    /\ hits = {} =>
                          gen.out[n].to_string =
                              resolve_field_value(issue, field_name_to_id(field).val).val
                    /\ later # {} =>
                          gen.out[n].to_string = gen.out[MinOf(later)].from_string

\* a field changed twice, from different values, its first historical
\* snapshot already emitted; and a second tracked field that never changed
C2_Witness ==
    \E g \in Started :
        LET gen == gens[g]
            dated == DatedItems(issues[gen.key].histories)
        IN  /\ Len(gen.fields) = 2
            /\ Len(gen.out) >= 3
            /\ {m \in 1..Len(dated) : dated[m].item.field = gen.fields[1]} = {1, 2}
            /\ dated[1].item.fromString # dated[2].item.fromString
            /\ {m \in 1..Len(dated) : dated[m].item.field = gen.fields[2]} = {}

\* C3: every initial snapshot has from_value None, the issue's key and the
\* issue's creation instant (in UTC); every historical snapshot carries its
\* delta item's field, fromString and toString verbatim, the issue's key and
\* the instant (in UTC) of the history entry that holds the item.
C3_SnapshotFields ==
    \A g \in Started :
        LET gen == gens[g]
            issue == issues[gen.key]
            N == Len(gen.fields)
            hist == OnlyTracked(DatedItems(issue.histories), gen.fields)
        IN  \A n \in 1..Len(gen.out) :
                /\ gen.out[n].key = issue.key
                /\ gen.out[n].date.utcoffset = 0
                /\ IF n <= N
                   THEN /\ gen.out[n].from_string = None
                        /\ gen.out[n].date.wall = Instant(issue.created)
                   ELSE /\ n - N <= Len(hist)
                        /\ gen.out[n].change = hist[n - N].item.field
                        /\ gen.out[n].from_string = hist[n - N].item.fromString
                        /\ gen.out[n].to_string = hist[n - N].item.toString
                        /\ gen.out[n].date.wall = Instant(hist[n - N].created)

\* an initial and two historical snapshots from two histories whose
\* timestamps carry a UTC offset
C3_Witness ==
    \E g \in Started :
        LET gen == gens[g]
            issue == issues[gen.key]
        IN  /\ Len(gen.fields) = 1
            /\ Len(gen.out) = 3
            /\ Len(issue.histories) = 2
            /\ issue.created[2] # 0
            /\ issue.histories[2].created[2] # 0
            /\ gen.out[2].date # gen.out[3].date

RECURSIVE Exhaust(_, _)
Exhaust(gen, issue) ==
    IF gen.pc # "suspended" THEN gen ELSE Exhaust(GenStep(gen, issue), issue)

ConsumedAlone(key, fields) ==
    Exhaust([Idle EXCEPT !.pc = "suspended", !.key = key, !.fields = fields],
            SampleIssues[key])

AgreesWithAlone ==
    \A g \in Started :
        LET gen == gens[g]
            alone == ConsumedAlone(gen.key, gen.fields)
        IN  /\ Len(gen.out) <= Len(alone.out)
            /\ gen.out = SubSeq(alone.out, 1, Len(gen.out))
            /\ gen.pc # "suspended" =>
                  /\ gen.out = alone.out
                  /\ gen.pc = alone.pc
                  /\ gen.exc = alone.exc

ReadOnlyAfterConstruction ==
    qm.state = "ok" =>
        /\ qm' = qm
        /\ settings' = settings
        /\ jira_fields' = jira_fields
        /\ issues' = issues

C10_Independent ==
    [](AgreesWithAlone) /\ [][ReadOnlyAfterConstruction]_vars

\* two generators over the same issue, both part-way through the changelog,
\* one of them ahead of the other
C10_Witness ==
    /\ gens["g1"].pc = "suspended"
    /\ gens["g2"].pc = "suspended"
    /\ gens["g1"].key = gens["g2"].key
    /\ gens["g1"].fields = gens["g2"].fields
    /\ Len(gens["g1"].fields) = 1
    /\ Len(gens["g1"].out) = 2
    /\ Len(gens["g2"].out) = 3

(***************************************************************************)
(* Properties of resolve_field_value                                       *)
(***************************************************************************)
\* the last call was resolve_field_value on a field holding a list
ResolvedList ==
    /\ ret.op = "resolve_field_value"
    /\ ret.exc = ""
    /\ ret.arg \in DOMAIN issues[ret.key].fields
    /\ issues[ret.key].fields[ret.arg].isList

ResolvedElems == issues[ret.key].fields[ret.arg].elems

\* an element's display name when it exposes one, else the element
DisplayName(e) == IF e.hasName THEN Str(e.name) ELSE e

\* the attributes the configuration maps to field_id
AttributesOf(field_id) ==
    {a \in DOMAIN qm.attributes_to_fields : qm.attributes_to_fields[a] = field_id}

\* C5: a list-valued field whose attribute has a known-values list resolves
\* to the first entry of that list, in configuration order, that is among the
\* field's candidate values, or to null when no entry is.
C5_KnownValuesPriorityPick ==
    (/\ ResolvedList
     /\ ret.arg \in DOMAIN qm.fields_to_attributes
     /\ qm.fields_to_attributes[ret.arg] \in DOMAIN settings.known_values)
    => LET known == settings.known_values[qm.fields_to_attributes[ret.arg]]
           candidates == {DisplayName(ResolvedElems[j]) : j \in 1..Len(ResolvedElems)}
           present == {n \in 1..Len(known) : known[n] \in candidates}
       IN  ret.val = IF present = {} THEN None ELSE known[MinOf(present)]

\* C6: an empty list-valued field resolves to null.
C6_EmptyListIsNull ==
    (ResolvedList /\ ResolvedElems = <<>>) => ret.val = None

\* C8 as stated: a non-empty list-valued field with no known-values
\* configuration resolves to its first element, reduced to its display name
\* when the element exposes one.
C8_FirstElement ==
    (/\ ResolvedList
     /\ ResolvedElems # <<>>
     /\ \A a \in AttributesOf(ret.arg) : a \notin DOMAIN settings.known_values)
    => ret.val = DisplayName(ResolvedElems[1])

\* C8 amended: ... resolves to its first element, reduced to its display
\* name when the element exposes one, and then, when that is not an int,
\* float, bool, str or bytes, converted with str() (kept as it is when str()
\* raises TypeError).
C8_FirstElementCoerced ==
    (/\ ResolvedList
     /\ ResolvedElems # <<>>
     /\ \A a \in AttributesOf(ret.arg) : a \notin DOMAIN settings.known_values)
    => LET first == DisplayName(ResolvedElems[1])
       IN  ret.val = IF first.kind \in {"int", "float", "bool", "str", "bytes", "nostr"}
                     THEN first
                     ELSE Str(first.v)

\* a two-element list on a field no attribute maps to, its first element
\* exposing a name, resolved to that name
C8_Witness ==
    /\ ResolvedList
    /\ Len(ResolvedElems) = 2
    /\ AttributesOf(ret.arg) = {}
    /\ ResolvedElems[1].hasName
    /\ ResolvedElems[2] = Str("x")
    /\ ret.val = Str("z")

(***************************************************************************)
(* Properties of QueryManager.__init__                                     *)
(***************************************************************************)
Configured == {settings.attributes[k] : k \in 1..Len(settings.attributes)}

\* C7: construction raises the configuration error, and constructs nothing,
\* exactly when some configured field name matches no directory entry under
\* case-insensitive exact comparison; otherwise every attribute maps to the
\* id of a directory entry whose name equals the configured name
\* case-insensitively.
C7_UnknownFieldRejected ==
    qm.state # "new" =>
        /\ qm.state = "ConfigError" <=> \E c \in Configured : ~HasDirectoryEntry(c.field)
        /\ qm.state = "ConfigError" =>
              /\ qm.attributes_to_fields = EmptyMap
              /\ qm.fields_to_attributes = EmptyMap
        /\ qm.state = "ok" =>
              /\ DOMAIN qm.attributes_to_fields = {c.name : c \in Configured}
              /\ \A c \in Configured :
                    \E n \in 1..Len(jira_fields) :
                        /\ jira_fields[n].id = qm.attributes_to_fields[c.name]
                        /\ SameNameIgnoringCase(jira_fields[n].name, c.field)

\* a manager constructed from a name written in another case than the
\* directory's, beside a second attribute
C7_Witness ==
    /\ qm.state = "ok"
    /\ Len(settings.attributes) = 2
    /\ \E c \in Configured :
          /\ \A n \in 1..Len(jira_fields) : jira_fields[n].name # c.field
          /\ c.name \in DOMAIN qm.attributes_to_fields

\* C9: after construction the two maps are inverse to each other: every
\* attribute is the attribute of its field, every mapped field the field of
\* its attribute.
C9_Bidirectional ==
    qm.state = "ok" =>
        /\ \A a \in DOMAIN qm.attributes_to_fields :
              qm.fields_to_attributes[qm.attributes_to_fields[a]] = a
        /\ \A f \in DOMAIN qm.fields_to_attributes :
              qm.attributes_to_fields[qm.fields_to_attributes[f]] = f

====
